---- MODULE Spec2Model ----
(***************************************************************************)
(* Build pipeline of the web-to-Android packager: the build registry       *)
(* (MemStorage), the build route of registerRoutes with its background     *)
(* task, the progress channel, and the builder classes the route drives.   *)
(*                                                                         *)
(* Three deployments of the same route are modelled, selected by           *)
(* `variant`:                                                              *)
(*   "real"         server/routes.ts + RealAndroidBuildSystem              *)
(*   "working"      the registerRoutes that wires WorkingAndroidBuilder    *)
(*                  and KeystoreGenerator                                  *)
(*   "professional" the route of server/routes.ts with                     *)
(*                  ProfessionalAndroidBuildSystem as its builder: the     *)
(*                  class has the same buildAPK(config, onProgress)        *)
(*                  interface; no route of the repository instantiates it  *)
(*                                                                         *)
(* One action is one turn of the Node event loop.  MemStorage's async     *)
(* methods resolve in microtasks, so a chain of awaits on storage calls    *)
(* runs without any other request or task in between: the build route up   *)
(* to the builder's first stage is one action, and so is a builder stage   *)
(* together with the route's handling of the result when the stage makes   *)
(* buildAPK return.  Stages of one builder are separate actions.           *)
(* execSync blocks the event loop, so an external process that never exits *)
(* and has no timeout stops the whole server (`hung`).                     *)
(***************************************************************************)
EXTENDS Integers, Sequences, FiniteSets, TLC

MaxBuilds == 2
MaxProjects == 1
MaxSockets == 1
MaxFiles == 2

BuildIds == 1..MaxBuilds
ProjectIds == 1..MaxProjects
Sockets == 1..MaxSockets

Variants == {"real", "working", "professional"}

\* insertBuildSchema: status is free text taken from the request body.  The
\* client's handleBuild sends 'building'; any other text is accepted as well.
ClientStatus == {"building", "success"}

NULL == "null"

\* a path the request body names; the pipeline never writes there
ClientPath == "client"

\* The request bodies of POST /api/projects/:id/builds.  insertBuildSchema
\* omits only id, startedAt and completedAt, so status, outputPath and aabPath
\* are taken from the body: the client's handleBuild sends { status:
\* 'building' }, and a body may as well claim a finished build.
Requests ==
  { [ status     |-> s,
      outputPath |-> IF s = "success" THEN ClientPath ELSE NULL,
      aabPath    |-> IF s = "success" THEN ClientPath ELSE NULL ] : s \in ClientStatus }

\* createBuild copies the request; the progress column is left unset
NoProgress == 0 - 1

\* no download has been answered yet
NoResponse == [build |-> 0, kind |-> NULL, code |-> 0, body |-> NULL]

\* useBuildProgress before any event: progress, isComplete, result
useState == [progress |-> NULL, isComplete |-> FALSE, result |-> NULL]

\* the directory the server was started in, as a path
ServerDir == <<"server">>

\* CordovaBuilder before any call of buildAPK: the process is in the server's
\* directory, cordovaInstalled is false; origin is the directory the process
\* was in when the run's buildAPK was called
NoCordova ==
  [ cwd       |-> ServerDir,
    installed |-> FALSE,
    run       |-> [j \in 1..MaxBuilds |->
                     [pc |-> "idle", origin |-> << >>, result |-> "none"]] ]

\* no builder run is being followed
NoPackage ==
  [ builder    |-> NULL,
    websiteUrl |-> FALSE,   \* config.websiteUrl is set
    uploads    |-> << >>,   \* the file parts of the upload request
    files      |-> << >>,   \* config.files
    pc         |-> "idle",
    entry      |-> NULL,    \* what the generated MainActivity loads
    assets     |-> << >>,   \* files written: path relative to the assets directory -> content
    apk        |-> << >> ]  \* the package archive: entries in the order added

VARIABLES
  variant,          \* which builder the route instantiates
  projects,         \* MemStorage.projects (ids present)
  projectIdCounter, \* MemStorage.projectIdCounter
  signingConfigs,   \* MemStorage.signingConfigs: project -> keystorePath kind
  builds,           \* MemStorage.builds: id -> Build
  buildIdCounter,   \* MemStorage.buildIdCounter
  buildStats,       \* MemStorage.buildStats
  task,             \* per build: position and locals of handler + background task
  events,           \* per build: what was emitted to room build-<id>
  outputs,          \* output directory: APK path -> build that last wrote it
  rooms,            \* per socket: the builds whose room build-<id> it joined
  received,         \* per socket and build: what the socket was sent
  hung,             \* the event loop is blocked in an execSync that never returns
  response,         \* what the last download request was answered with
  pkg,              \* content source, assets and archive of one builder run
  hook,             \* per socket and build: the state of useBuildProgress
  cordova           \* CordovaBuilder: process working directory and its runs

vars == <<variant, projects, projectIdCounter, signingConfigs, builds,
          buildIdCounter, buildStats, task, events, outputs, rooms, received,
          hung, response, pkg, hook, cordova>>

-----------------------------------------------------------------------------
(* MemStorage *)

\* { ...build, ...updates }
Merge(build, updates) ==
  [f \in DOMAIN build |-> IF f \in DOMAIN updates THEN updates[f] ELSE build[f]]

createBuild(id, projectId, insertBuild) ==
  [ projectId    |-> projectId,
    status       |-> insertBuild.status,
    progress     |-> NoProgress,
    buildStep    |-> NULL,
    outputPath   |-> insertBuild.outputPath,
    aabPath      |-> insertBuild.aabPath,
    keystorePath |-> NULL,
    errorMessage |-> NULL,
    completedAt  |-> FALSE ]

\* updateBuild as it would be if it stored the status first and the other
\* fields of the update in a later turn
updateBuild_statusFirst(bs, id, updates) ==
  LET first == IF "status" \in DOMAIN updates
               THEN [f \in {"status"} |-> updates[f]] ELSE updates
      updatedBuild == Merge(bs[id], first)
  IN [bs EXCEPT ![id] = updatedBuild]

\* defined when id \in DOMAIN bs; otherwise the code throws "Build not found"
updateBuild(bs, id, updates) ==
  LET updatedBuild == Merge(bs[id], updates)
      stamped == IF "status" \in DOMAIN updates
                    /\ updates.status \in {"success", "failed"}
                 THEN [updatedBuild EXCEPT !.completedAt = TRUE]
                 ELSE updatedBuild
  IN [bs EXCEPT ![id] = stamped]

\* return { ...this.buildStats }
getBuildStats(stats) == stats

\* updateBuildStats as it would be if it stored the update in place of the
\* statistics, every counter the update does not name starting again at zero
updateBuildStats_replaces(stats, updates) ==
  [f \in DOMAIN stats |-> IF f \in DOMAIN updates THEN updates[f] ELSE 0]

\* this.buildStats = { ...this.buildStats, ...updates }
updateBuildStats(stats, updates) == Merge(stats, updates)

-----------------------------------------------------------------------------
(* per-build task state *)

IdleTask ==
  [ pc         |-> "idle",
    projectId  |-> 0,        \* req.params.id of the submission
    signingConfig |-> "none", \* what getSigningConfig returned: none | nofile | file
    keystore   |-> "none",   \* what keystorePath refers to: none | nofile | file
    apk        |-> "none",   \* how the package was made: none | gradle | manual | archive | aapt
    signed     |-> FALSE,    \* jarsigner completed on the package
    aligned    |-> FALSE,    \* zipalign completed on the package
    aab        |-> "none",   \* how the bundle was made: none | gradle | manual | archive | zip
    result     |-> "none",   \* buildResult.success: none | success | failure
    entered    |-> << >>,    \* stages entered, in order
    invoked    |-> {},       \* external processes started: <<tool, timeout in seconds>>
    failedAt   |-> NULL,     \* stage in which an external process first failed
    failedTool |-> NULL ]    \* that process

ServerInit ==
  /\ variant \in Variants
  /\ projects = {}
  /\ projectIdCounter = 1
  /\ signingConfigs = [p \in ProjectIds |-> "none"]
  /\ builds = << >>
  /\ buildIdCounter = 1
  /\ buildStats = [totalBuilds |-> 0, successfulBuilds |-> 0, failedBuilds |-> 0]
  /\ task = [j \in BuildIds |-> IdleTask]
  /\ events = [j \in BuildIds |-> << >>]
  /\ outputs = << >>
  /\ rooms = [s \in Sockets |-> {}]
  /\ received = [s \in Sockets |->
                   [j \in BuildIds |-> [progress |-> FALSE, complete |-> 0]]]
  /\ hung = FALSE
  /\ response = NoResponse
  /\ hook = [s \in Sockets |-> [j \in BuildIds |-> useState]]
  /\ cordova = NoCordova

Init == ServerInit /\ pkg = NoPackage

-----------------------------------------------------------------------------
(* progress channel and progress callback *)

ProgressEvent(step, p) ==
  [type |-> "build-progress", step |-> step, progress |-> p, success |-> FALSE]

CompleteEvent(ok) ==
  [type |-> "build-complete", step |-> NULL, progress |-> NoProgress, success |-> ok]

\* io.emit(...): the events go to every connected socket
Deliver_broadcast(j, new) ==
  [s \in Sockets |->
     [received[s] EXCEPT ![j] =
        [progress |-> @.progress
                        \/ \E i \in 1..Len(new) : new[i].type = "build-progress",
         complete |-> @.complete
                        + Cardinality({i \in 1..Len(new) : new[i].type = "build-complete"})]]]

\* io.to(`build-${build.id}`).emit(...) for each of the events `new`: they go
\* to the sockets that are in the room at that moment
Deliver(j, new) ==
  [s \in Sockets |->
     IF j \in rooms[s]
     THEN [received[s] EXCEPT ![j] =
             [progress |-> @.progress
                             \/ \E i \in 1..Len(new) : new[i].type = "build-progress",
              complete |-> @.complete
                             + Cardinality({i \in 1..Len(new) : new[i].type = "build-complete"})]]
     ELSE received[s]]

\* the buildId field of the events: build.id, the number MemStorage counted
EventBuildId(j) == [type |-> "number", value |-> j]

\* the :buildId segment of the page route as useParams gives it: a string
useParams(j) == [type |-> "string", value |-> j]

\* a === b: values of different types are never equal
StrictEquals(a, b) == a.type = b.type /\ a.value = b.value

\* the hook's 'build-progress' and 'build-complete' listeners for the event
\* `data`; buildId is the argument the hook was called with
onEvent(h, data, buildId) ==
  IF ~StrictEquals(data.buildId, buildId) THEN h
  ELSE IF data.type = "build-progress"
  THEN [h EXCEPT !.progress = data.step]
  ELSE [h EXCEPT !.result = IF data.success THEN "success" ELSE "failure",
                 !.isComplete = TRUE,
                 !.progress = IF data.success THEN "complete" ELSE "error"]

RECURSIVE onEvents(_, _, _, _)
\* the listeners run for the events of build j in the order they were sent
onEvents(h, j, new, buildId) ==
  IF new = << >> THEN h
  ELSE onEvents(onEvent(h, [type    |-> Head(new).type,
                            buildId |-> EventBuildId(j),
                            step    |-> Head(new).step,
                            success |-> Head(new).success], buildId),
                j, Tail(new), buildId)

\* The hooks after the events `new` of build j were sent: the Download page
\* calls useBuildProgress(buildId) with the route's parameter, and its socket
\* gets the events once it has joined the room.
Accept(j, new) ==
  [s \in Sockets |->
     IF j \in rooms[s]
     THEN [hook[s] EXCEPT ![j] = onEvents(@, j, new, useParams(j))]
     ELSE hook[s]]

\* what one turn added to the channel of build j
Emitted(j) == SubSeq(events'[j], Len(events[j]) + 1, Len(events'[j]))

\* The callback routes.ts passes to buildAPK: storage.updateBuild is called and
\* not awaited, so a missing build only rejects a discarded promise.  The
\* "working" route registers an emitter listener that only relays the event.
onProgress(bs, j, step, p) ==
  IF variant # "working" /\ j \in DOMAIN bs
  THEN updateBuild(bs, j, [progress |-> p, buildStep |-> step])
  ELSE bs

\* an execSync outcome: exit 0, non-zero exit, or the process never exits
Outcomes == {"ok", "fail", "hang"}
\* an outcome of file-system or archiver work
FsOutcomes == {"ok", "fail"}

\* no timeout option on the execSync call
NoTimeout == 0

-----------------------------------------------------------------------------
(* the background task of POST /api/projects/:id/builds *)

\* updateBuild argument when buildResult.success
SuccessUpdate(t) ==
  IF variant = "working"
  THEN [ status |-> "success", outputPath |-> "apk",
         aabPath |-> IF t.aab = "none" THEN NULL ELSE "aab" ]
  ELSE [ status |-> "success", outputPath |-> "apk",
         aabPath |-> IF t.aab = "none" THEN NULL ELSE "aab",
         keystorePath |-> "jks", progress |-> 100, buildStep |-> "Complete" ]

\* updateBuild argument when buildResult.success is false
FailureUpdate ==
  IF variant = "working"
  THEN [ status |-> "failed", errorMessage |-> "error" ]
  ELSE [ status |-> "failed", errorMessage |-> "error",
         progress |-> 0, buildStep |-> "Failed" ]

\* updateBuild argument of the task's catch block
CatchUpdate == [ status |-> "failed", errorMessage |-> "error" ]

RECURSIVE Report(_, _, _)
\* the registry after the progress reports <<step, percentage>> of one turn
Report(bs, j, reports) ==
  IF reports = << >> THEN bs
  ELSE Report(onProgress(bs, j, Head(reports)[1], Head(reports)[2]), j, Tail(reports))

\* the channel of build j after the same reports
Relay(j, reports) ==
  events[j] \o [i \in 1..Len(reports) |-> ProgressEvent(reports[i][1], reports[i][2])]

\* One turn of build j's task ends with locals t after making `reports`.
\* If buildAPK has returned (t.result is set) the route goes on in the same
\* turn: it records the result, counts a success, and emits 'build-complete'.
\* When the build record is gone, updateBuild throws in the try block and
\* again in the catch block: the task ends in an unhandled rejection.
Commit(j, t, reports) ==
  LET bs == Report(builds, j, reports)
      ev == Relay(j, reports)
  IN
  /\ hung' = hung
  /\ IF t.result = "none"
     THEN /\ task' = [task EXCEPT ![j] = t]
          /\ builds' = bs
          /\ events' = [events EXCEPT ![j] = ev]
          /\ buildStats' = buildStats
     ELSE IF j \notin DOMAIN bs
     THEN /\ task' = [task EXCEPT ![j] = [t EXCEPT !.pc = "rejected"]]
          /\ builds' = bs
          /\ events' = [events EXCEPT ![j] = ev]
          /\ buildStats' = buildStats
     ELSE IF t.result = "success"
     THEN /\ task' = [task EXCEPT ![j] = [t EXCEPT !.pc = "done"]]
          /\ builds' = updateBuild(bs, j, SuccessUpdate(t))
          /\ buildStats' = updateBuildStats(buildStats,
                 [successfulBuilds |-> getBuildStats(buildStats).successfulBuilds + 1])
          /\ events' = [events EXCEPT ![j] = Append(ev, CompleteEvent(TRUE))]
     ELSE /\ task' = [task EXCEPT ![j] = [t EXCEPT !.pc = "done"]]
          /\ builds' = updateBuild(bs, j, FailureUpdate)
          /\ buildStats' = buildStats
          /\ events' = [events EXCEPT ![j] = Append(ev, CompleteEvent(FALSE))]
  /\ received' = Deliver(j, Emitted(j))
  /\ hook' = Accept(j, Emitted(j))

\* The turn never ends: an execSync without a timeout waits for a process
\* that does not exit.  The reports made before the call were delivered.
Hang(j, t, reports) ==
  /\ hung' = TRUE
  /\ task' = [task EXCEPT ![j] = t]
  /\ builds' = Report(builds, j, reports)
  /\ events' = [events EXCEPT ![j] = Relay(j, reports)]
  /\ received' = Deliver(j, Emitted(j))
  /\ hook' = Accept(j, Emitted(j))
  /\ buildStats' = buildStats

At(j, v, pc) == ~hung /\ variant = v /\ task[j].pc = pc

Entered(t, step) == [t EXCEPT !.entered = Append(@, step)]

Invoked(t, tool, timeout) == [t EXCEPT !.invoked = @ \cup {<<tool, timeout>>}]

\* an external process or file operation failed in `stage`
Failed(t, stage, tool) ==
  [t EXCEPT !.failedAt = IF @ = NULL THEN stage ELSE @,
            !.failedTool = IF @ = NULL THEN tool ELSE @]

\* buildAPK's catch block as it would be if it threw the error again
Caught_rethrows(t) == [t EXCEPT !.pc = "returned", !.result = "rejected"]

\* buildAPK's catch block: it returns { success: false, error }
Caught(t) == [t EXCEPT !.pc = "returned", !.result = "failure"]

Goto(t, pc) == [t EXCEPT !.pc = pc]

\* The path of the APK a build hands out.  RealAndroidBuildSystem and
\* ProfessionalAndroidBuildSystem name it after the nanoid of the run,
\* WorkingAndroidBuilder after the project's appName and versionName.
ApkPath(j) ==
  IF variant = "working" THEN <<"app", task[j].projectId>> ELSE <<"build", j>>

\* the output directory after build j wrote its APK
Written(j) == (ApkPath(j) :> j) @@ outputs

Untouched == UNCHANGED <<variant, projects, projectIdCounter, signingConfigs,
                         buildIdCounter, rooms, response,
                         pkg, cordova>>

Frame == Untouched /\ UNCHANGED outputs

-----------------------------------------------------------------------------
(* routes: projects, signing configuration, build submission *)

\* POST /api/projects
CreateProject ==
  /\ ~hung
  /\ projectIdCounter <= MaxProjects
  /\ projects' = projects \cup {projectIdCounter}
  /\ projectIdCounter' = projectIdCounter + 1
  /\ UNCHANGED <<variant, signingConfigs, builds, buildIdCounter, buildStats,
                 task, events, outputs, rooms, received, hung, response, pkg, hook, cordova>>

\* deleteProject as it would be if the next build id were derived from the
\* number of builds left in the map
DeleteProject_compactsIds(p) ==
  /\ ~hung
  /\ p \in projects
  /\ projects' = projects \ {p}
  /\ builds' = [i \in {b \in DOMAIN builds : builds[b].projectId # p} |-> builds[i]]
  /\ buildIdCounter' = Cardinality(DOMAIN builds') + 1
  /\ signingConfigs' = [signingConfigs EXCEPT ![p] = "none"]
  /\ UNCHANGED <<variant, projectIdCounter, buildStats, task, events, outputs,
                 rooms, received, hung, response, pkg, hook, cordova>>

\* DELETE /api/projects/:id -> MemStorage.deleteProject
DeleteProject(p) ==
  /\ ~hung
  /\ p \in projects
  /\ projects' = projects \ {p}
  /\ builds' = [i \in {b \in DOMAIN builds : builds[b].projectId # p} |-> builds[i]]
  /\ signingConfigs' = [signingConfigs EXCEPT ![p] = "none"]
  /\ UNCHANGED <<variant, projectIdCounter, buildIdCounter, buildStats, task,
                 events, outputs, rooms, received, hung, response, pkg, hook, cordova>>

\* POST /api/projects/:id/signing.  The client's handleBuild sends the path
\* the user typed, or the text "Generated automatically" (no such file).
\* getSigningConfig returns the first configuration stored for the project,
\* so only the first one of a project is recorded.
CreateSigningConfig(p, keystorePath) ==
  /\ ~hung
  /\ signingConfigs[p] = "none"
  /\ signingConfigs' = [signingConfigs EXCEPT ![p] = keystorePath]
  /\ UNCHANGED <<variant, projects, projectIdCounter, builds, buildIdCounter,
                 buildStats, task, events, outputs, rooms, received, hung, response, pkg, hook, cordova>>

\* socket.on('join-build'): the socket joins room build-<id>.  Nothing is
\* sent to it on joining.  The client joins with the id of a build it has
\* submitted.
JoinBuild(s, j) ==
  /\ ~hung
  /\ task[j].pc # "idle"
  /\ j \notin rooms[s]
  /\ rooms' = [rooms EXCEPT ![s] = @ \cup {j}]
  /\ UNCHANGED <<variant, projects, projectIdCounter, signingConfigs, builds,
                 buildIdCounter, buildStats, task, events, outputs, received,
                 hung, response, pkg, hook, cordova>>

\* POST /api/projects/:id/builds: createBuild, the totalBuilds count, and the
\* start of the background task: getProject, getProjectFiles and
\* getSigningConfig.  A missing project makes the task throw; its catch block
\* runs in the same turn.
SubmitBuild(p, insertBuild) ==
  /\ ~hung
  /\ buildIdCounter <= MaxBuilds
  /\ LET id == buildIdCounter
         bs == builds @@ (id :> createBuild(id, p, insertBuild))
     IN
       /\ buildIdCounter' = id + 1
       /\ buildStats' = updateBuildStats(buildStats,
                           [totalBuilds |-> getBuildStats(buildStats).totalBuilds + 1])
       /\ IF p \in projects
          THEN /\ builds' = bs
               /\ task' = [task EXCEPT ![id].projectId = p,
                                       ![id].signingConfig = signingConfigs[p],
                                       ![id].pc =
                             IF variant = "working" THEN "createDefaultKeystore"
                                                    ELSE "buildAPK"]
               /\ events' = events
          ELSE /\ builds' = updateBuild(bs, id, CatchUpdate)
               /\ task' = [task EXCEPT ![id].projectId = p,
                                       ![id].signingConfig = signingConfigs[p],
                                       ![id].pc = "done"]
               /\ events' = [events EXCEPT ![id] = Append(@, CompleteEvent(FALSE))]
  /\ received' = Deliver(buildIdCounter, Emitted(buildIdCounter))
  /\ hook' = Accept(buildIdCounter, Emitted(buildIdCounter))
  /\ UNCHANGED <<variant, projects, projectIdCounter, signingConfigs, outputs,
                 rooms, hung, response, pkg, cordova>>

-----------------------------------------------------------------------------
(* routes: downloads *)

\* the paths buildResult names: files the pipeline copied to its output directory
PipelinePaths == {"apk", "aab", "jks"}

\* fs.existsSync(path) for the path stored in build j's record.  Whether a
\* file exists at a path the pipeline did not write is up to the host.
Exists(j, path, foreign) ==
  IF path \in PipelinePaths THEN ApkPath(j) \in DOMAIN outputs ELSE foreign

\* the file at that path: what it is, and the build whose run wrote it
FileAt(j, path) ==
  IF path \in PipelinePaths THEN <<path, outputs[ApkPath(j)]>> ELSE <<"foreign", 0>>

\* the Buffer the route makes up when the file is missing
Placeholder == <<"placeholder", 0>>

\* the entries of the demo package of the complete-download route
DemoZip ==
  { <<"apk", Placeholder>>, <<"aab", Placeholder>>, <<"jks", Placeholder>>,
    <<"readme", <<"readme", 0>> >> }

Response(j, kind, code, body) ==
  [build |-> j, kind |-> kind, code |-> code, body |-> body]

\* GET .../download/apk and .../download/aab: `field` is outputPath or aabPath
DownloadArtifact(j, kind, field, foreign) ==
  /\ ~hung
  /\ response' =
       IF j \notin DOMAIN builds \/ builds[j].status # "success" \/ builds[j][field] = NULL
       THEN Response(j, kind, 404, NULL)
       ELSE IF Exists(j, builds[j][field], foreign)
       THEN Response(j, kind, 200, FileAt(j, builds[j][field]))
       ELSE Response(j, kind, 200, Placeholder)
  /\ UNCHANGED <<variant, projects, projectIdCounter, signingConfigs, builds,
                 buildIdCounter, buildStats, task, events, outputs, rooms,
                 received, hung, pkg, hook, cordova>>

\* GET /api/builds/:id/download/apk
DownloadApk(j, foreign) == DownloadArtifact(j, "apk", "outputPath", foreign)

\* GET /api/builds/:id/download/aab
DownloadAab(j, foreign) == DownloadArtifact(j, "aab", "aabPath", foreign)

\* RealAndroidBuildSystem.createDeliveryZip: each of the three files is added
\* if it exists, then README.txt
createDeliveryZip(j, apkPath, aabPath, keystorePath, foreign) ==
  { <<"apk", FileAt(j, apkPath)>> : x \in {y \in {1} : Exists(j, apkPath, foreign)} }
    \cup { <<"aab", FileAt(j, aabPath)>> : x \in {y \in {1} : Exists(j, aabPath, foreign)} }
    \cup { <<"jks", FileAt(j, keystorePath)>> : x \in {y \in {1} : Exists(j, keystorePath, foreign)} }
    \cup { <<"readme", <<"readme", 0>> >> }

\* GET /api/builds/:id/download/complete.  A field that is not set is replaced
\* by a path under temp/; when createDeliveryZip rejects, the demo package is
\* streamed instead.
DownloadComplete(j, foreign, zip) ==
  /\ ~hung
  /\ response' =
       IF j \notin DOMAIN builds \/ builds[j].status # "success"
       THEN Response(j, "complete", 404, NULL)
       ELSE IF zip = "ok"
       THEN Response(j, "complete", 200,
                     createDeliveryZip(j, builds[j].outputPath, builds[j].aabPath,
                                       builds[j].keystorePath, foreign))
       ELSE Response(j, "complete", 200, DemoZip)
  /\ UNCHANGED <<variant, projects, projectIdCounter, signingConfigs, builds,
                 buildIdCounter, buildStats, task, events, outputs, rooms,
                 received, hung, pkg, hook, cordova>>

-----------------------------------------------------------------------------
(* content source, assets and the package archive of one builder run *)

Builders == {"real", "working", "hybrid", "complete"}

\* The file names a client puts into the parts of an upload request, as
\* paths (sequences of segments): plain names, names that climb out of the
\* directory they are joined to, and a bare '..'
UploadNames ==
  { <<"index.html">>, <<"app.js">>, <<"..", "app.js">>, <<"..", "..", "run.sh">>,
    <<"..">> }

\* the content of an uploaded file
FileContents == {"v1", "v2"}

\* the upload requests: up to MaxFiles file parts
UploadLists ==
  UNION { [1..n -> [filename : UploadNames, content : FileContents]] : n \in 0..MaxFiles }

\* file.originalname as it would be with multer's preservePath option: the
\* part's file name with its directories
originalname_preservePath(filename) == filename

\* file.originalname: multer is set up without preservePath, so the name is
\* the part's file name after its last separator, and '' for '.' and '..'
originalname(filename) ==
  IF filename = << >> \/ filename[Len(filename)] \in {".", ".."} THEN << >>
  ELSE << filename[Len(filename)] >>

\* path.extname(name).toLowerCase()
extname(name) ==
  IF name = << >> THEN ""
  ELSE CASE name[Len(name)] = "index.html" -> ".html"
         [] name[Len(name)] = "app.js" -> ".js"
         [] name[Len(name)] = "run.sh" -> ".sh"
         [] OTHER -> ""

allowedTypes == {".html", ".css", ".js", ".png", ".jpg", ".jpeg", ".gif", ".svg"}

\* multer's fileFilter: the file is accepted, or the request fails with
\* 'Invalid file type'
fileFilter(name) == extname(name) \in allowedTypes

\* POST /api/projects/:id/files: the project files the request leaves in
\* MemStorage.  A part the filter rejects fails the whole request before the
\* handler runs; a request without files is answered 400.
uploadFiles(parts) ==
  LET files == [i \in 1..Len(parts) |->
                  [name |-> originalname(parts[i].filename),
                   content |-> parts[i].content]]
  IN IF \A i \in 1..Len(files) : fileFilter(files[i].name) THEN files ELSE << >>

RECURSIVE normalize(_, _)
\* path.join resolves '..' against the segment before it
normalize(done, rest) ==
  IF rest = << >> THEN done
  ELSE IF Head(rest) = ".." /\ done # << >> /\ done[Len(done)] # ".."
  THEN normalize(SubSeq(done, 1, Len(done) - 1), Tail(rest))
  ELSE normalize(Append(done, Head(rest)), Tail(rest))

\* path.join(assetsDir, name), written relative to assetsDir: a path that
\* starts with '..' is outside the assets directory
assetPath(name) == normalize(<< >>, name)

\* the page a builder writes for a URL-based app
Generated == "generated"

RECURSIVE writeFiles(_, _)
\* for (const file of config.files) fs.writeFile(assetsDir/file.name, file.content)
writeFiles(assets, files) ==
  IF files = << >> THEN assets
  ELSE writeFiles((assetPath(Head(files).name) :> Head(files).content) @@ assets,
                  Tail(files))

\* the page for config.websiteUrl
createWebsiteAssets == assetPath(<<"index.html">>) :> Generated

\* webView.loadUrl("file:///android_asset/index.html")
LocalEntry == "file:///android_asset/index.html"

\* webView.loadUrl of config.websiteUrl as the request gave it
RequestUrl == "config.websiteUrl"

\* RealAndroidBuildSystem.generateMainActivity
Real_generateMainActivity(config) ==
  LET websiteUrl == IF config.websiteUrl THEN RequestUrl ELSE "https://example.com"
      hasFiles == Len(config.files) > 0
  IN IF hasFiles THEN LocalEntry ELSE websiteUrl

\* WorkingAndroidBuilder.generateMainActivity
Working_generateMainActivity(config) ==
  IF config.websiteUrl THEN RequestUrl ELSE LocalEntry

\* CompleteAndroidBuilder.generateMainActivity
Complete_generateMainActivity(config) ==
  LET webUrl == IF config.websiteUrl THEN RequestUrl ELSE "https://www.google.com"
  IN webUrl

\* RealAndroidBuildSystem.createAndroidProject, "Copy web assets";
\* HybridAndroidBuilder.createWebAssets has the same branches
Real_copyWebAssets(config) ==
  IF Len(config.files) > 0 THEN writeFiles(<< >>, config.files)
  ELSE IF config.websiteUrl THEN createWebsiteAssets
  ELSE << >>

\* WorkingAndroidBuilder.copyWebAssets: the URL comes first; config.files is
\* an array and so always truthy, which leaves the default page unreachable
Working_copyWebAssets(config) ==
  IF config.websiteUrl THEN createWebsiteAssets
  ELSE writeFiles(<< >>, config.files)

\* CompleteAndroidBuilder.copyWebAssets: called for a non-empty file list only
Complete_copyWebAssets(config) ==
  IF Len(config.files) > 0 THEN writeFiles(<< >>, config.files) ELSE << >>

\* what archive.file / archive.directory / archive.append add: the entries
\* of one kind.  A directory without files adds none.
Entries(kind, names) == [kind |-> kind, names |-> names]

Added(calls) == SelectSeq(calls, LAMBDA e : e.names # {})

\* the files the generate* methods write below res/
ResFiles == {"values/strings.xml", "layout/activity_main.xml"}

\* RealAndroidBuildSystem.createManualAPK
createManualAPK(assets) ==
  Added(<< Entries("manifest", {"AndroidManifest.xml"}),
           Entries("res", ResFiles),
           Entries("assets", DOMAIN assets),
           Entries("dex", {"classes.dex"}),
           Entries("meta", {"META-INF/MANIFEST.MF"}) >>)

\* WorkingAndroidBuilder.packageAPK with createMetaInf
packageAPK(assets) ==
  Added(<< Entries("manifest", {"AndroidManifest.xml"}),
           Entries("dex", {"classes.dex"}),
           Entries("res", ResFiles),
           Entries("assets", DOMAIN assets),
           Entries("meta", {"META-INF/MANIFEST.MF", "META-INF/CERT.SF",
                            "META-INF/CERT.RSA"}) >>)

\* HybridAndroidBuilder.createRealAPK
createRealAPK(assets) ==
  Added(<< Entries("manifest", {"AndroidManifest.xml"}),
           Entries("res", ResFiles),
           Entries("assets", DOMAIN assets),
           Entries("meta", {"META-INF/MANIFEST.MF"}),
           Entries("dex", {"classes.dex"}),
           Entries("meta", {"META-INF/CERT.RSA"}) >>)

\* CompleteAndroidBuilder.createMinimalAPK, and then signAPK: jarsigner adds
\* its signature files to the archive (a jarsigner failure fails the build)
createMinimalAPK(assets) ==
  Added(<< Entries("manifest", {"AndroidManifest.xml"}),
           Entries("res", ResFiles),
           Entries("assets", DOMAIN assets),
           Entries("dex", {"classes.dex"}),
           Entries("meta", {"META-INF/MANIFEST.MF", "META-INF/CERT.SF",
                            "META-INF/CERT.RSA"}) >>)

PkgFrame ==
  UNCHANGED <<variant, projects, projectIdCounter, signingConfigs, builds,
              buildIdCounter, buildStats, task, events, outputs, rooms,
              received, hung, response, hook, cordova>>

\* POST /api/projects/:id/files
Pkg_upload ==
  /\ pkg.pc = "upload"
  /\ pkg' = [pkg EXCEPT !.pc = "request", !.files = uploadFiles(pkg.uploads)]
  /\ PkgFrame

\* POST /api/projects/:id/builds: buildConfig is made of project.websiteUrl
\* and the project's files, whatever they are, and buildAPK is called
Pkg_buildConfig ==
  /\ pkg.pc = "request"
  /\ pkg' = [pkg EXCEPT !.pc = "copyWebAssets"]
  /\ PkgFrame

\* the builder generates the project: MainActivity (HybridAndroidBuilder
\* has a compiled one) and the assets directory
Pkg_copyWebAssets ==
  /\ pkg.pc = "copyWebAssets"
  /\ pkg' = [pkg EXCEPT !.pc = "packageAPK",
                        !.entry =
                          CASE pkg.builder = "real" -> Real_generateMainActivity(pkg)
                            [] pkg.builder = "working" -> Working_generateMainActivity(pkg)
                            [] pkg.builder = "complete" -> Complete_generateMainActivity(pkg)
                            [] OTHER -> NULL,
                        !.assets =
                          CASE pkg.builder = "working" -> Working_copyWebAssets(pkg)
                            [] pkg.builder = "complete" -> Complete_copyWebAssets(pkg)
                            [] OTHER -> Real_copyWebAssets(pkg)]
  /\ PkgFrame

\* the builder writes the package archive
Pkg_packageAPK ==
  /\ pkg.pc = "packageAPK"
  /\ pkg' = [pkg EXCEPT !.pc = "done",
                        !.apk =
                          CASE pkg.builder = "real" -> createManualAPK(pkg.assets)
                            [] pkg.builder = "working" -> packageAPK(pkg.assets)
                            [] pkg.builder = "hybrid" -> createRealAPK(pkg.assets)
                            [] pkg.builder = "complete" -> createMinimalAPK(pkg.assets)]
  /\ PkgFrame

-----------------------------------------------------------------------------
(* RealAndroidBuildSystem (server/real-android-build-system.ts) *)

\* buildAPK: 'Initializing', fs.mkdir(projectDir)
Real_buildAPK(j) ==
  /\ At(j, "real", "buildAPK")
  /\ \E out \in FsOutcomes :
       LET t == Entered(task[j], "Initializing") IN
       Commit(j, IF out = "ok" THEN Goto(t, "createAndroidProject")
                 ELSE Caught(Failed(t, "Initializing", "fs")),
              << <<"Initializing", 5>> >>)
  /\ Frame

\* 'Creating project': createAndroidProject; createAppIcon runs `convert`
\* through execSync inside a try block that falls back to a hand-made PNG
Real_createAndroidProject(j) ==
  /\ At(j, "real", "createAndroidProject")
  /\ \E out \in FsOutcomes, convert \in Outcomes :
       LET t == Invoked(Entered(task[j], "Creating project"), "convert", NoTimeout)
           r == << <<"Creating project", 15>> >>
       IN IF convert = "hang" THEN Hang(j, t, r)
          ELSE Commit(j, IF out = "ok" THEN Goto(t, "generateKeystore")
                         ELSE Caught(Failed(t, "Creating project", "fs")), r)
  /\ Frame

\* 'Generating keystore': generateKeystore runs keytool through execSync
\* with no try block around it
Real_generateKeystore(j) ==
  /\ At(j, "real", "generateKeystore")
  /\ \E keytool \in Outcomes :
       LET t == Invoked(Entered(task[j], "Generating keystore"), "keytool", NoTimeout)
           r == << <<"Generating keystore", 30>> >>
       IN CASE keytool = "ok" ->
                 Commit(j, Goto([t EXCEPT !.keystore = "file"], "setupGradleBuild"), r)
            [] keytool = "fail" ->
                 Commit(j, Caught(Failed(t, "Generating keystore", "keytool")), r)
            [] keytool = "hang" -> Hang(j, t, r)
  /\ Frame

\* 'Creating gradle build': setupGradleBuild writes the Gradle files
Real_setupGradleBuild(j) ==
  /\ At(j, "real", "setupGradleBuild")
  /\ \E out \in FsOutcomes :
       LET t == Entered(task[j], "Creating gradle build") IN
       Commit(j, IF out = "ok" THEN Goto(t, "buildWithGradle")
                 ELSE Caught(Failed(t, "Creating gradle build", "fs")),
              << <<"Creating gradle build", 45>> >>)
  /\ Frame

\* 'Building APK': buildWithGradle; when gradle fails or its APK is missing
\* the catch block calls createManualAPK
Real_buildWithGradle(j) ==
  /\ At(j, "real", "buildWithGradle")
  /\ \E gradle \in Outcomes, manual \in FsOutcomes :
       LET t == Invoked(Entered(task[j], "Building APK"), "gradle", NoTimeout)
           r == << <<"Building APK", 60>> >>
           f == Failed(t, "Building APK", "gradle")
       IN CASE gradle = "ok" -> Commit(j, Goto([t EXCEPT !.apk = "gradle"], "signAPK"), r)
            [] gradle = "fail" /\ manual = "ok" ->
                 Commit(j, Goto([f EXCEPT !.apk = "manual"], "signAPK"), r)
            [] gradle = "fail" /\ manual = "fail" -> Commit(j, Caught(f), r)
            [] gradle = "hang" -> Hang(j, t, r)
  /\ Frame

\* signAPK as it would be if a jarsigner failure sent buildAPK back to
\* generateKeystore for a new keystore
Real_signAPK_regenerates(j) ==
  /\ At(j, "real", "signAPK")
  /\ \E jarsigner \in Outcomes :
       LET t == Invoked(Entered(task[j], "Signing APK"), "jarsigner", NoTimeout)
           r == << <<"Signing APK", 75>> >>
       IN CASE jarsigner = "ok" ->
                 Commit(j, Goto([t EXCEPT !.signed = TRUE], "createAAB"), r)
            [] jarsigner = "fail" ->
                 Commit(j, Goto(Failed(t, "Signing APK", "jarsigner"), "generateKeystore"), r)
            [] jarsigner = "hang" -> Hang(j, t, r)
  /\ Frame

\* 'Signing APK': signAPK; when jarsigner fails the catch block returns the
\* path of the unsigned APK
Real_signAPK(j) ==
  /\ At(j, "real", "signAPK")
  /\ \E jarsigner \in Outcomes :
       LET t == Invoked(Entered(task[j], "Signing APK"), "jarsigner", NoTimeout)
           r == << <<"Signing APK", 75>> >>
       IN CASE jarsigner = "ok" ->
                 Commit(j, Goto([t EXCEPT !.signed = TRUE], "createAAB"), r)
            [] jarsigner = "fail" ->
                 Commit(j, Goto(Failed(t, "Signing APK", "jarsigner"), "createAAB"), r)
            [] jarsigner = "hang" -> Hang(j, t, r)
  /\ Frame

\* 'Creating AAB': createAAB; when gradle bundleRelease fails the catch block
\* calls createManualAAB
Real_createAAB(j) ==
  /\ At(j, "real", "createAAB")
  /\ \E gradle \in Outcomes, manual \in FsOutcomes :
       LET t == Invoked(Entered(task[j], "Creating AAB"), "gradle-bundle", NoTimeout)
           r == << <<"Creating AAB", 85>> >>
           f == Failed(t, "Creating AAB", "gradle-bundle")
       IN CASE gradle = "ok" -> Commit(j, Goto([t EXCEPT !.aab = "gradle"], "copyOutputs"), r)
            [] gradle = "fail" /\ manual = "ok" ->
                 Commit(j, Goto([f EXCEPT !.aab = "manual"], "copyOutputs"), r)
            [] gradle = "fail" /\ manual = "fail" -> Commit(j, Caught(f), r)
            [] gradle = "hang" -> Hang(j, t, r)
  /\ Frame

\* 'Finalizing': the three fs.copyFile calls; then 'Complete' and the
\* success result
Real_copyOutputs(j) ==
  /\ At(j, "real", "copyOutputs")
  /\ \E out \in FsOutcomes :
       LET t == Entered(task[j], "Finalizing") IN
       IF out = "ok"
       THEN /\ Commit(j, [Entered(t, "Complete") EXCEPT !.pc = "returned", !.result = "success"],
                      << <<"Finalizing", 95>>, <<"Complete", 100>> >>)
            /\ outputs' = Written(j)
       ELSE /\ Commit(j, Caught(Failed(t, "Finalizing", "fs")), << <<"Finalizing", 95>> >>)
            /\ outputs' = outputs
  /\ Untouched

RealAndroidBuildSystem(j) ==
  \/ Real_buildAPK(j)
  \/ Real_createAndroidProject(j)
  \/ Real_generateKeystore(j)
  \/ Real_setupGradleBuild(j)
  \/ Real_buildWithGradle(j)
  \/ Real_signAPK(j)
  \/ Real_createAAB(j)
  \/ Real_copyOutputs(j)

-----------------------------------------------------------------------------
(* the route that wires WorkingAndroidBuilder, and KeystoreGenerator *)

\* execSync(keytoolCommand, { timeout: 60000 })
KeystoreTimeout == 60

\* "Generate or use existing keystore": the signing configuration the task
\* read, when it has a keystorePath, is used as it is; otherwise
\* createDefaultKeystore runs keytool (killed after the timeout) and on
\* success a configuration is saved.  When generation fails the build goes on
\* without a keystore.
Working_createDefaultKeystore(j) ==
  /\ At(j, "working", "createDefaultKeystore")
  /\ LET p == task[j].projectId IN
     IF task[j].signingConfig # "none"
     THEN /\ task' = [task EXCEPT ![j].keystore = task[j].signingConfig,
                                  ![j].pc = "buildAPK"]
          /\ signingConfigs' = signingConfigs
     ELSE \E keytool \in Outcomes :
            LET t == Invoked(task[j], "keytool", KeystoreTimeout) IN
            IF keytool = "ok"
            THEN /\ task' = [task EXCEPT ![j] = Goto([t EXCEPT !.keystore = "file"], "buildAPK")]
                 /\ signingConfigs' = [signingConfigs EXCEPT ![p] =
                                         IF @ = "none" THEN "file" ELSE @]
            ELSE /\ task' = [task EXCEPT ![j] =
                               Goto(Failed(t, "createDefaultKeystore", "keytool"), "buildAPK")]
                 /\ signingConfigs' = signingConfigs
  /\ UNCHANGED <<variant, projects, projectIdCounter, builds, buildIdCounter,
                 buildStats, events, outputs, rooms, received, hung, response, pkg, hook, cordova>>

(* WorkingAndroidBuilder (server/working-android-builder.ts) *)

\* buildAPK's catch block emits an 'error' progress event before it returns
Working_error(r) == Append(r, <<"error", 0>>)

\* 'init': mkdirSync and createProjectStructure
Working_buildAPK(j) ==
  /\ At(j, "working", "buildAPK")
  /\ \E out \in FsOutcomes :
       LET t == Entered(task[j], "init")
           r == << <<"init", 5>> >>
       IN IF out = "ok" THEN Commit(j, Goto(t, "generateManifest"), r)
          ELSE Commit(j, Caught(Failed(t, "init", "fs")), Working_error(r))
  /\ Frame

\* 'resources': generateManifest, generateResources, copyWebAssets
Working_generateManifest(j) ==
  /\ At(j, "working", "generateManifest")
  /\ \E out \in FsOutcomes :
       LET t == Entered(task[j], "resources")
           r == << <<"resources", 20>> >>
       IN IF out = "ok" THEN Commit(j, Goto(t, "compileJavaSources"), r)
          ELSE Commit(j, Caught(Failed(t, "resources", "fs")), Working_error(r))
  /\ Frame

\* 'compile': compileJavaSources runs javac when android.jar exists; a javac
\* failure is caught and createMinimalBytecode is used instead
Working_compileJavaSources(j) ==
  /\ At(j, "working", "compileJavaSources")
  /\ \E androidJar \in BOOLEAN, javac \in Outcomes :
       LET e == Entered(task[j], "compile")
           t == IF androidJar THEN Invoked(e, "javac", NoTimeout) ELSE e
           r == << <<"compile", 40>> >>
       IN CASE ~androidJar \/ javac = "ok" -> Commit(j, Goto(t, "createDexFile"), r)
            [] androidJar /\ javac = "fail" ->
                 Commit(j, Goto(Failed(t, "compile", "javac"), "createDexFile"), r)
            [] androidJar /\ javac = "hang" -> Hang(j, t, r)
  /\ Frame

\* 'dex': createDexFile writes a fixed header
Working_createDexFile(j) ==
  /\ At(j, "working", "createDexFile")
  /\ \E out \in FsOutcomes :
       LET t == Entered(task[j], "dex")
           r == << <<"dex", 60>> >>
       IN IF out = "ok" THEN Commit(j, Goto(t, "packageAPK"), r)
          ELSE Commit(j, Caught(Failed(t, "dex", "fs")), Working_error(r))
  /\ Frame

\* 'package': packageAPK zips the project with archiver
Working_packageAPK(j) ==
  /\ At(j, "working", "packageAPK")
  /\ \E out \in FsOutcomes :
       LET t == Entered(task[j], "package")
           r == << <<"package", 80>> >>
       IN IF out = "ok" THEN Commit(j, Goto([t EXCEPT !.apk = "archive"], "signAPK"), r)
          ELSE Commit(j, Caught(Failed(t, "package", "archiver")), Working_error(r))
  /\ Frame

\* 'sign': signAPK.  With a keystore file: jarsigner, then zipalign, whose
\* failure is caught by copying the signed APK.  Without one, or when
\* jarsigner fails, the APK is copied to the "-signed" path as it is.  Every
\* way out but a hanging process writes the "-signed" path.
Working_signAPK(j) ==
  /\ At(j, "working", "signAPK")
  /\ \E jarsigner \in Outcomes, zipalign \in Outcomes :
       LET e == Entered(task[j], "sign")
           r == << <<"sign", 90>> >>
           tj == Invoked(e, "jarsigner", NoTimeout)
           tz == Invoked([tj EXCEPT !.signed = TRUE], "zipalign", NoTimeout)
           hangs == /\ task[j].keystore = "file"
                    /\ jarsigner = "hang" \/ (jarsigner = "ok" /\ zipalign = "hang")
       IN /\ CASE task[j].keystore # "file" -> Commit(j, Goto(e, "createAAB"), r)
               [] task[j].keystore = "file" /\ jarsigner = "hang" -> Hang(j, tj, r)
               [] task[j].keystore = "file" /\ jarsigner = "fail" ->
                    Commit(j, Goto(Failed(tj, "sign", "jarsigner"), "createAAB"), r)
               [] task[j].keystore = "file" /\ jarsigner = "ok" /\ zipalign = "hang" ->
                    Hang(j, tz, r)
               [] task[j].keystore = "file" /\ jarsigner = "ok" /\ zipalign = "fail" ->
                    Commit(j, Goto(Failed(tz, "sign", "zipalign"), "createAAB"), r)
               [] task[j].keystore = "file" /\ jarsigner = "ok" /\ zipalign = "ok" ->
                    Commit(j, Goto([tz EXCEPT !.aligned = TRUE], "createAAB"), r)
          /\ outputs' = IF hangs THEN outputs ELSE Written(j)
  /\ Untouched

\* 'bundle': createAAB zips the project with archiver; then 'complete' and
\* the success result
Working_createAAB(j) ==
  /\ At(j, "working", "createAAB")
  /\ \E out \in FsOutcomes :
       LET t == Entered(task[j], "bundle")
           r == << <<"bundle", 95>> >>
       IN IF out = "ok"
          THEN Commit(j, [Entered(t, "complete") EXCEPT !.aab = "archive",
                            !.pc = "returned", !.result = "success"],
                      Append(r, <<"complete", 100>>))
          ELSE Commit(j, Caught(Failed(t, "bundle", "archiver")), Working_error(r))
  /\ Frame

WorkingAndroidBuilder(j) ==
  \/ Working_createDefaultKeystore(j)
  \/ Working_buildAPK(j)
  \/ Working_generateManifest(j)
  \/ Working_compileJavaSources(j)
  \/ Working_createDexFile(j)
  \/ Working_packageAPK(j)
  \/ Working_signAPK(j)
  \/ Working_createAAB(j)

-----------------------------------------------------------------------------
(* ProfessionalAndroidBuildSystem (server/professional-android-build-system.ts) *)

\* 'Initializing': setupAndroidSDK returns at once when sdkmanager exists,
\* otherwise it downloads and installs the SDK through execSync and rethrows
Pro_setupAndroidSDK(j) ==
  /\ At(j, "professional", "buildAPK")
  /\ \E installed \in BOOLEAN, curl \in Outcomes :
       LET e == Entered(task[j], "Initializing")
           t == IF installed THEN e ELSE Invoked(e, "curl", NoTimeout)
           r == << <<"Initializing", 5>> >>
       IN CASE installed \/ curl = "ok" -> Commit(j, Goto(t, "createAndroidProject"), r)
            [] ~installed /\ curl = "fail" ->
                 Commit(j, Caught(Failed(t, "Initializing", "curl")), r)
            [] ~installed /\ curl = "hang" -> Hang(j, t, r)
  /\ Frame

\* 'Creating project': createAndroidProject
Pro_createAndroidProject(j) ==
  /\ At(j, "professional", "createAndroidProject")
  /\ \E out \in FsOutcomes :
       LET t == Entered(task[j], "Creating project") IN
       Commit(j, IF out = "ok" THEN Goto(t, "generateKeystore")
                 ELSE Caught(Failed(t, "Creating project", "fs")),
              << <<"Creating project", 15>> >>)
  /\ Frame

\* 'Generating keystore': generateKeystore runs keytool through execSync
Pro_generateKeystore(j) ==
  /\ At(j, "professional", "generateKeystore")
  /\ \E keytool \in Outcomes :
       LET t == Invoked(Entered(task[j], "Generating keystore"), "keytool", NoTimeout)
           r == << <<"Generating keystore", 30>> >>
       IN CASE keytool = "ok" ->
                 Commit(j, Goto([t EXCEPT !.keystore = "file"], "compileResources"), r)
            [] keytool = "fail" ->
                 Commit(j, Caught(Failed(t, "Generating keystore", "keytool")), r)
            [] keytool = "hang" -> Hang(j, t, r)
  /\ Frame

\* 'Compiling resources': compileResources runs aapt
Pro_compileResources(j) ==
  /\ At(j, "professional", "compileResources")
  /\ \E aapt \in Outcomes :
       LET t == Invoked(Entered(task[j], "Compiling resources"), "aapt", NoTimeout)
           r == << <<"Compiling resources", 45>> >>
       IN CASE aapt = "ok" -> Commit(j, Goto(t, "compileJava"), r)
            [] aapt = "fail" -> Commit(j, Caught(Failed(t, "Compiling resources", "aapt")), r)
            [] aapt = "hang" -> Hang(j, t, r)
  /\ Frame

\* 'Compiling java': compileJava runs javac, then dx
Pro_compileJava(j) ==
  /\ At(j, "professional", "compileJava")
  /\ \E javac \in Outcomes, dx \in Outcomes :
       LET tj == Invoked(Entered(task[j], "Compiling java"), "javac", NoTimeout)
           td == Invoked(tj, "dx", NoTimeout)
           r == << <<"Compiling java", 60>> >>
       IN CASE javac = "hang" -> Hang(j, tj, r)
            [] javac = "fail" -> Commit(j, Caught(Failed(tj, "Compiling java", "javac")), r)
            [] javac = "ok" /\ dx = "hang" -> Hang(j, td, r)
            [] javac = "ok" /\ dx = "fail" ->
                 Commit(j, Caught(Failed(td, "Compiling java", "dx")), r)
            [] javac = "ok" /\ dx = "ok" -> Commit(j, Goto(td, "createUnsignedAPK"), r)
  /\ Frame

\* 'Creating APK': createUnsignedAPK runs aapt package and zip
Pro_createUnsignedAPK(j) ==
  /\ At(j, "professional", "createUnsignedAPK")
  /\ \E aapt \in Outcomes :
       LET t == Invoked(Entered(task[j], "Creating APK"), "aapt", NoTimeout)
           r == << <<"Creating APK", 75>> >>
       IN CASE aapt = "ok" -> Commit(j, Goto([t EXCEPT !.apk = "aapt"], "signAPK"), r)
            [] aapt = "fail" -> Commit(j, Caught(Failed(t, "Creating APK", "aapt")), r)
            [] aapt = "hang" -> Hang(j, t, r)
  /\ Frame

\* 'Signing APK': signAPK runs jarsigner and then zipalign, neither inside a
\* try block, and returns the aligned APK
Pro_signAPK(j) ==
  /\ At(j, "professional", "signAPK")
  /\ \E jarsigner \in Outcomes, zipalign \in Outcomes :
       LET tj == Invoked(Entered(task[j], "Signing APK"), "jarsigner", NoTimeout)
           tz == Invoked([tj EXCEPT !.signed = TRUE], "zipalign", NoTimeout)
           r == << <<"Signing APK", 85>> >>
       IN CASE jarsigner = "hang" -> Hang(j, tj, r)
            [] jarsigner = "fail" ->
                 Commit(j, Caught(Failed(tj, "Signing APK", "jarsigner")), r)
            [] jarsigner = "ok" /\ zipalign = "hang" -> Hang(j, tz, r)
            [] jarsigner = "ok" /\ zipalign = "fail" ->
                 Commit(j, Caught(Failed(tz, "Signing APK", "zipalign")), r)
            [] jarsigner = "ok" /\ zipalign = "ok" ->
                 Commit(j, Goto([tz EXCEPT !.aligned = TRUE], "createAAB"), r)
  /\ Frame

\* 'Creating AAB': createAAB runs cp and zip through execSync
Pro_createAAB(j) ==
  /\ At(j, "professional", "createAAB")
  /\ \E zip \in Outcomes :
       LET t == Invoked(Entered(task[j], "Creating AAB"), "zip", NoTimeout)
           r == << <<"Creating AAB", 90>> >>
       IN CASE zip = "ok" -> Commit(j, Goto([t EXCEPT !.aab = "zip"], "copyOutputs"), r)
            [] zip = "fail" -> Commit(j, Caught(Failed(t, "Creating AAB", "zip")), r)
            [] zip = "hang" -> Hang(j, t, r)
  /\ Frame

\* 'Finalizing': the three fs.copyFile calls; then 'Complete' and the
\* success result
Pro_copyOutputs(j) ==
  /\ At(j, "professional", "copyOutputs")
  /\ \E out \in FsOutcomes :
       LET t == Entered(task[j], "Finalizing") IN
       IF out = "ok"
       THEN /\ Commit(j, [Entered(t, "Complete") EXCEPT !.pc = "returned", !.result = "success"],
                      << <<"Finalizing", 95>>, <<"Complete", 100>> >>)
            /\ outputs' = Written(j)
       ELSE /\ Commit(j, Caught(Failed(t, "Finalizing", "fs")), << <<"Finalizing", 95>> >>)
            /\ outputs' = outputs
  /\ Untouched

ProfessionalAndroidBuildSystem(j) ==
  \/ Pro_setupAndroidSDK(j)
  \/ Pro_createAndroidProject(j)
  \/ Pro_generateKeystore(j)
  \/ Pro_compileResources(j)
  \/ Pro_compileJava(j)
  \/ Pro_createUnsignedAPK(j)
  \/ Pro_signAPK(j)
  \/ Pro_createAAB(j)
  \/ Pro_copyOutputs(j)

-----------------------------------------------------------------------------

\* one turn of build j's background task
Pipeline(j) ==
  \/ RealAndroidBuildSystem(j)
  \/ WorkingAndroidBuilder(j)
  \/ ProfessionalAndroidBuildSystem(j)

\* the steps buildAPK reports, in the order of its statements
StageOrder ==
  CASE variant = "real" ->
         << "Initializing", "Creating project", "Generating keystore",
            "Creating gradle build", "Building APK", "Signing APK",
            "Creating AAB", "Finalizing", "Complete" >>
    [] variant = "working" ->
         << "init", "resources", "compile", "dex", "package", "sign",
            "bundle", "complete" >>
    [] variant = "professional" ->
         << "Initializing", "Creating project", "Generating keystore",
            "Compiling resources", "Compiling java", "Creating APK",
            "Signing APK", "Creating AAB", "Finalizing", "Complete" >>

Next ==
  \/ CreateProject
  \/ \E p \in ProjectIds : DeleteProject(p)
  \/ \E p \in ProjectIds, keystorePath \in {"nofile", "file"} :
       CreateSigningConfig(p, keystorePath)
  \/ \E p \in ProjectIds, insertBuild \in Requests : SubmitBuild(p, insertBuild)
  \/ \E j \in BuildIds : Pipeline(j)

Spec == Init /\ [][Next]_vars

\* the event loop runs every turn that is ready
LiveSpec == Spec /\ \A j \in BuildIds : WF_vars(Pipeline(j))

\* server/routes.ts as deployed, with clients on the progress channel
BrokerInit == Init /\ variant = "real"

BrokerNext ==
  \/ CreateProject
  \/ \E p \in ProjectIds : DeleteProject(p)
  \/ \E p \in ProjectIds, insertBuild \in Requests : SubmitBuild(p, insertBuild)
  \/ \E s \in Sockets, j \in BuildIds : JoinBuild(s, j)
  \/ \E j \in BuildIds : RealAndroidBuildSystem(j)

BrokerSpec == BrokerInit /\ [][BrokerNext]_vars

\* server/routes.ts as deployed, with clients fetching artifacts
DownloadNext ==
  \/ CreateProject
  \/ \E p \in ProjectIds : DeleteProject(p)
  \/ \E p \in ProjectIds, insertBuild \in Requests : SubmitBuild(p, insertBuild)
  \/ \E j \in BuildIds : RealAndroidBuildSystem(j)
  \/ \E j \in BuildIds, foreign \in BOOLEAN : DownloadApk(j, foreign)
  \/ \E j \in BuildIds, foreign \in BOOLEAN : DownloadAab(j, foreign)
  \/ \E j \in BuildIds, foreign \in BOOLEAN, zip \in FsOutcomes :
       DownloadComplete(j, foreign, zip)

DownloadSpec == BrokerInit /\ [][DownloadNext]_vars

\* one builder run from the build request to the package archive, for every
\* content source a project can have
PackageInit ==
  /\ ServerInit /\ variant = "real"
  /\ pkg \in [ builder : Builders, websiteUrl : BOOLEAN, uploads : UploadLists,
               files : {<< >>}, pc : {"upload"}, entry : {NULL},
               assets : {<< >>}, apk : {<< >>} ]

PackageNext == Pkg_upload \/ Pkg_buildConfig \/ Pkg_copyWebAssets \/ Pkg_packageAPK

PackageSpec == PackageInit /\ [][PackageNext]_vars

-----------------------------------------------------------------------------
(* CordovaBuilder *)

\* process.cwd()
cwd(c) == c.cwd

\* process.chdir(directory)
chdir(c, directory) == [c EXCEPT !.cwd = directory]

\* path.join(this.buildDir, buildId), buildDir being <server>/builds
projectDir(j) == ServerDir \o <<"builds", j>>

\* The end of buildAPK, on the success path and in the catch block alike:
\* process.chdir(process.cwd()), then the result is returned
Cordova_return(c, j, result) ==
  [chdir(c, cwd(c)) EXCEPT !.run[j].pc = "returned", !.run[j].result = result]

CordovaFrame ==
  UNCHANGED <<variant, projects, projectIdCounter, signingConfigs, builds,
              buildIdCounter, buildStats, task, events, outputs, rooms,
              received, hung, response, pkg, hook>>

\* buildAPK(config) is called: it runs up to its first await, which is
\* setupCordova's `cordova --version` or, with Cordova set up, `cordova create`
Cordova_buildAPK(j) ==
  /\ cordova.run[j].pc = "idle"
  /\ cordova' = [cordova EXCEPT
                   !.run[j].origin = cwd(cordova),
                   !.run[j].pc = IF cordova.installed THEN "create"
                                                      ELSE "setupCordova"]
  /\ CordovaFrame

\* setupCordova has ended: Cordova is there or was installed, or the
\* installation failed and the error is thrown into buildAPK's catch block
Cordova_setupCordova(j, npm) ==
  /\ cordova.run[j].pc = "setupCordova"
  /\ cordova' = IF npm = "ok"
                THEN [cordova EXCEPT !.installed = TRUE, !.run[j].pc = "create"]
                ELSE Cordova_return(cordova, j, "failure")
  /\ CordovaFrame

\* `cordova create <projectDir>` has ended; after a success the process
\* changes into the project directory and starts `cordova platform add`
Cordova_create(j, create) ==
  /\ cordova.run[j].pc = "create"
  /\ cordova' = IF create = "ok"
                THEN [chdir(cordova, projectDir(j)) EXCEPT !.run[j].pc = "platform"]
                ELSE Cordova_return(cordova, j, "failure")
  /\ CordovaFrame

\* `cordova platform add android`, configureApp and copyWebAssets have ended
Cordova_platform(j, platform) ==
  /\ cordova.run[j].pc = "platform"
  /\ cordova' = IF platform = "ok"
                THEN [cordova EXCEPT !.run[j].pc = "build"]
                ELSE Cordova_return(cordova, j, "failure")
  /\ CordovaFrame

\* `cordova build android`, findGeneratedAPK and the copy to .aab have ended
Cordova_build(j, build) ==
  /\ cordova.run[j].pc = "build"
  /\ cordova' = Cordova_return(cordova, j,
                                IF build = "ok" THEN "success" ELSE "failure")
  /\ CordovaFrame

\* calls of CordovaBuilder.buildAPK, one turn of the event loop at a time
CordovaNext ==
  \/ \E j \in BuildIds : Cordova_buildAPK(j)
  \/ \E j \in BuildIds, npm \in FsOutcomes : Cordova_setupCordova(j, npm)
  \/ \E j \in BuildIds, create \in FsOutcomes : Cordova_create(j, create)
  \/ \E j \in BuildIds, platform \in FsOutcomes : Cordova_platform(j, platform)
  \/ \E j \in BuildIds, build \in FsOutcomes : Cordova_build(j, build)

CordovaSpec == Init /\ [][CordovaNext]_vars

-----------------------------------------------------------------------------
(* properties *)

\* C1: once a build's status is 'success' or 'failed', no later step changes
\* its status, its stage (buildStep) or its percentage (progress).
C1_TerminalIsFinal ==
  [][\A j \in BuildIds :
       (/\ j \in DOMAIN builds
        /\ builds[j].status \in {"success", "failed"}
        /\ j \in DOMAIN builds')
       => /\ builds'[j].status = builds[j].status
          /\ builds'[j].buildStep = builds[j].buildStep
          /\ builds'[j].progress = builds[j].progress]_vars

\* C2: when the background task of a submitted build has ended, exactly one
\* 'build-complete' event has been emitted to the build's room.
C2_ExactlyOneTerminalEvent ==
  \A j \in BuildIds :
    task[j].pc \in {"done", "rejected"}
    => Cardinality({i \in 1..Len(events[j]) :
                      events[j][i].type = "build-complete"}) = 1

\* C3: every percentage published for a build and every percentage written
\* to its record lies in 0..100 and is at least every earlier one, the value
\* written on failure included.
C3_ProgressMonotone ==
  [][\A j \in BuildIds :
       /\ \A i \in 1..Len(events'[j]), k \in 1..Len(events'[j]) :
            (/\ i < k
             /\ events'[j][i].type = "build-progress"
             /\ events'[j][k].type = "build-progress")
            => /\ events'[j][i].progress \in 0..100
               /\ events'[j][k].progress \in 0..100
               /\ events'[j][i].progress <= events'[j][k].progress
       /\ (j \in DOMAIN builds /\ j \in DOMAIN builds'
             /\ builds[j].progress # NoProgress)
          => /\ builds'[j].progress \in 0..100
             /\ builds'[j].progress >= builds[j].progress]_vars

\* C4: when an external process of a mandatory stage (resources, compile,
\* dex, package, sign) fails, no later stage is entered and buildAPK does not
\* report success.
C4_MandatoryFailureAborts ==
  \A j \in BuildIds :
    LET t == task[j]
        mandatory == {"Building APK", "Signing APK",
                      "resources", "compile", "dex", "package", "sign",
                      "Compiling resources", "Compiling java", "Creating APK"}
    IN (t.failedAt \in mandatory /\ t.failedTool # "zipalign")
       => /\ t.entered[Len(t.entered)] = t.failedAt
          /\ t.result # "success"

\* C5: a build that succeeds has a package on which jarsigner completed with
\* the build's keystore.
C5_SuccessIsSigned ==
  \A j \in BuildIds :
    task[j].result = "success" => task[j].signed /\ task[j].keystore = "file"

\* C6: when keytool fails to create the keystore, the build ends 'failed',
\* its recorded stage is the signing stage, and no package path is recorded.
C6_KeystoreFailureFailsInSigningStage ==
  \A j \in BuildIds :
    (/\ task[j].failedTool = "keytool"
     /\ task[j].pc = "done"
     /\ j \in DOMAIN builds)
    => /\ builds[j].status = "failed"
       /\ builds[j].buildStep \in
            {"Generating keystore", "createDefaultKeystore", "Signing APK", "sign"}
       /\ builds[j].outputPath = NULL

\* C7: when zipalign is the process that fails, the signing stage does not
\* fail the build and the package stays the signed one.
C7_AlignmentFailureTolerated ==
  \A j \in BuildIds :
    LET t == task[j] IN
    (t.failedTool = "zipalign" /\ t.entered[Len(t.entered)] = t.failedAt)
    => t.result # "failure" /\ t.signed

\* C8: when the bundle stage is the first to fail, no bundle is produced in
\* its place and the stage does not fail the build.
C8_BundleFailureLeavesNoBundle ==
  \A j \in BuildIds :
    LET t == task[j]
        bundle == {"Creating AAB", "bundle"}
    IN t.failedAt \in bundle
       => /\ t.aab = "none"
          /\ (t.entered[Len(t.entered)] \in bundle => t.result # "failure")

\* C9: a submitted build is eventually seen with status 'success' or 'failed'
\* by GET /api/builds/:id (or is gone with its project), whatever the
\* external processes do.
C9_EventuallyTerminal ==
  \A j \in BuildIds :
    (task[j].pc # "idle")
      ~> (j \notin DOMAIN builds \/ builds[j].status \in {"success", "failed"})

\* C10: every external process a build starts is given a timeout, and no
\* process leaves the build waiting for ever.
C10_EveryProcessHasTimeout ==
  /\ \A j \in BuildIds : \A inv \in task[j].invoked : inv[2] # NoTimeout
  /\ ~hung

\* C11: a build whose task has not ended is stored as pending or running
\* ('building'), and no status outside 'pending', 'building', 'success',
\* 'failed' is ever stored, whatever the client sends.
C11_StatusStateMachine ==
  \A j \in DOMAIN builds :
    /\ builds[j].status \in {"pending", "building", "success", "failed"}
    /\ task[j].pc # "done" => builds[j].status \in {"pending", "building"}

C13_FailedStageRecorded ==
  \A j \in DOMAIN builds :
    LET t == task[j] IN
    /\ (t.pc = "done" /\ t.result = "success")
       => /\ builds[j].outputPath # NULL
          /\ builds[j].aabPath # NULL
          /\ builds[j].keystorePath # NULL
    /\ (t.pc = "done" /\ t.result = "failure")
       => /\ builds[j].buildStep = t.entered[Len(t.entered)]
          /\ builds[j].errorMessage # NULL

\* C14: when signing succeeded and nothing but the bundle stage failed, the
\* finished build is 'success' and a 100% event was published for it.
C14_SuccessAfterLastMandatoryStage ==
  \A j \in DOMAIN builds :
    LET t == task[j] IN
    (/\ t.pc = "done"
     /\ t.signed
     /\ t.failedAt \in {NULL, "Creating AAB", "bundle"})
    => /\ builds[j].status = "success"
       /\ \E i \in 1..Len(events[j]) :
            events[j][i].type = "build-progress" /\ events[j][i].progress = 100

\* C15: when the signing configuration the build read names a keystore file
\* that exists, the build signs with it and starts no keytool.
C15_ExistingKeystoreReused ==
  \A j \in BuildIds :
    task[j].signingConfig = "file"
    => /\ \A inv \in task[j].invoked : inv[1] # "keytool"
       /\ task[j].keystore \in {"none", "file"}

\* C16: a build that has entered its signing stage holds a keystore path
\* that names an existing file.
C16_SignsWithExistingKeystore ==
  \A j \in BuildIds :
    (\E i \in 1..Len(task[j].entered) : task[j].entered[i] \in {"Signing APK", "sign"})
    => task[j].keystore = "file"

\* C17: a submission gets an identifier no earlier build ever had, also
\* after builds were deleted, and the task of an identifier is started once:
\* when the build is created, and never again.
C17_FreshIdentifier ==
  [][\A j \in BuildIds :
       /\ (j \in DOMAIN builds' /\ j \notin DOMAIN builds)
          => task[j].pc = "idle" /\ task'[j].pc # "idle"
       /\ task[j].pc # "idle"
          => /\ task'[j].pc # "idle"
             /\ task'[j].projectId = task[j].projectId
             /\ (task'[j].pc = (IF variant = "working"
                                 THEN "createDefaultKeystore" ELSE "buildAPK")
                 => task[j].pc = task'[j].pc)]_vars

\* C17 witness: a build was submitted after an earlier build had been
\* deleted with its project
C17_Witness ==
  \E j \in BuildIds, k \in BuildIds :
    /\ j < k
    /\ task[j].pc # "idle" /\ j \notin DOMAIN builds
    /\ k \in DOMAIN builds

\* C18: the APK path recorded for a build that succeeded still holds the
\* file that build wrote: no other build has written the same path.
C18_ArtifactsNotOverwritten ==
  \A j \in BuildIds :
    task[j].result = "success"
    => ApkPath(j) \in DOMAIN outputs /\ outputs[ApkPath(j)] = j

\* C19: a socket that is in a build's room when the build's task ends is
\* sent the build's 'build-complete' event, and joining a room sends the
\* socket nothing that was published before.
C19_SubscriberGetsTerminalEvent ==
  [][\A s \in Sockets, j \in BuildIds :
       /\ (/\ j \in rooms[s]
           /\ task[j].pc \notin {"done", "rejected"}
           /\ task'[j].pc \in {"done", "rejected"})
          => received'[s][j].complete = received[s][j].complete + 1
       /\ (j \notin rooms[s] /\ j \in rooms'[s])
          => received'[s][j] = received[s][j]]_vars

\* C20: a socket is sent events of a build only if it joined that build's room.
C20_ChannelKeyedByBuild ==
  \A s \in Sockets, j \in BuildIds :
    j \notin rooms[s] => received[s][j] = [progress |-> FALSE, complete |-> 0]

\* C20 witness: a socket that joined only the room of build 2 got that
\* build's events while build 1 published events of its own
C20_Witness ==
  \E s \in Sockets :
    /\ rooms[s] = {2}
    /\ received[s][2].progress /\ received[s][2].complete = 1
    /\ Len(events[1]) > 1

\* C21: whatever a reader of the registry gets between two turns, every
\* update has been applied to it as a whole: a record that a turn gave its
\* result carries the status together with every other field of that update
\* and the completion stamp, and a record that a turn only reported progress
\* on carries the percentage together with the stage of the same report.
C21_ConsistentSnapshot ==
  [][\A j \in DOMAIN builds' :
       LET b == builds'[j]
           ended == task[j].pc # "done" /\ task'[j].pc = "done"
           n == Len(events'[j])
       IN
       /\ (ended /\ task'[j].result = "success")
          => /\ b.status = "success" /\ b.outputPath = "apk" /\ b.completedAt
             /\ b.aabPath = (IF task'[j].aab = "none" THEN NULL ELSE "aab")
             /\ variant # "working"
                => b.progress = 100 /\ b.buildStep = "Complete" /\ b.keystorePath = "jks"
       /\ (ended /\ task'[j].result # "success")
          => /\ b.status = "failed" /\ b.errorMessage = "error" /\ b.completedAt
             /\ (variant # "working" /\ task'[j].result = "failure")
                => b.progress = 0 /\ b.buildStep = "Failed"
       /\ (/\ variant # "working"
           /\ task'[j].pc # "done"
           /\ n > Len(events[j]))
          => /\ b.progress = events'[j][n].progress
             /\ b.buildStep = events'[j][n].step]_vars

\* C21 witness: a record whose last update was the success update, all of it
C21_Witness ==
  \E j \in DOMAIN builds :
    /\ variant = "real"
    /\ task[j].pc = "done" /\ task[j].result = "success"
    /\ builds[j].status = "success" /\ builds[j].progress = 100
    /\ builds[j].keystorePath = "jks" /\ builds[j].completedAt

\* C22: a request for the package or the bundle of a build is answered with
\* not-found, or with the file of that kind that the build's own run wrote --
\* and then the run succeeded; it is never answered with anything else.
C22_ArtifactOrNotFound ==
  response.kind \in {"apk", "aab"}
  => \/ response.code = 404
     \/ /\ response.body = <<response.kind, response.build>>
        /\ task[response.build].result = "success"

\* C23: the archive the complete-download route answers with holds the
\* package, the keystore and the usage note of the build, each the file the
\* build's own run wrote, and the bundle exactly when that run produced one.
C23_DeliveryArchiveContents ==
  (response.kind = "complete" /\ response.code = 200)
  => LET j == response.build IN
     response.body =
       { <<"apk", <<"apk", j>> >>, <<"jks", <<"jks", j>> >>,
         <<"readme", <<"readme", 0>> >> }
       \cup (IF task[j].aab = "none" THEN {} ELSE { <<"aab", <<"aab", j>> >> })

\* C28: the package download answers with a file only for a build whose
\* status and output path were written by the success update of its own run.
C28_DownloadOnlyPipelineOutput ==
  (response.kind = "apk" /\ response.code = 200)
  => /\ task[response.build].pc = "done"
     /\ task[response.build].result = "success"

\* C29: the registry is written before the event is sent: a reader who got
\* a 'build-progress' event with percentage p finds a progress of at least p
\* in the build's record, and one who got 'build-complete' finds the status
\* the event announced.
C29_RegistryBeforeEvent ==
  \A j \in DOMAIN builds :
    \A i \in 1..Len(events[j]) :
      /\ events[j][i].type = "build-progress"
         => builds[j].progress >= events[j][i].progress
      /\ events[j][i].type = "build-complete"
         => builds[j].status = (IF events[j][i].success THEN "success" ELSE "failed")

\* C30: when the record of a submitted build is gone (its project was
\* deleted), the build's background task does not end in an unhandled
\* error, and once it has ended it has published 'build-complete'.
C30_DeletionDuringBuild ==
  \A j \in BuildIds :
    (task[j].pc # "idle" /\ j \notin DOMAIN builds)
    => /\ task[j].pc # "rejected"
       /\ task[j].pc = "done"
          => \E i \in 1..Len(events[j]) : events[j][i].type = "build-complete"

\* C24: a build request is handed to the builder only when the project has
\* exactly one content source: a URL, or a non-empty file list, not both and
\* not neither.
C24_ExactlyOneContentSource ==
  pkg.pc \in {"copyWebAssets", "packageAPK", "done"}
  => (pkg.websiteUrl /\ Len(pkg.files) = 0) \/ (~pkg.websiteUrl /\ Len(pkg.files) > 0)

\* C25: in the package archive the manifest comes first, then the
\* resources, then the assets, then the bytecode, then the signing metadata:
\* no entry is added before an entry of a kind that comes earlier in that order.
C25_EntryOrder ==
  LET order == <<"manifest", "res", "assets", "dex", "meta">>
      rank(kind) == CHOOSE r \in 1..Len(order) : order[r] = kind
  IN \A i \in 1..Len(pkg.apk), k \in 1..Len(pkg.apk) :
       i < k => rank(pkg.apk[i].kind) <= rank(pkg.apk[k].kind)

\* C26: the finished package archive holds entries of every required kind --
\* manifest, bytecode, resources, assets, signing metadata -- and of no other.
C26_RequiredEntrySet ==
  pkg.pc = "done"
  => {pkg.apk[i].kind : i \in 1..Len(pkg.apk)}
       = {"manifest", "dex", "res", "assets", "meta"}

\* C27: when the project has files, the assets are the files as supplied:
\* every file is there under its name with its content, nothing else is
\* there, and the archive's asset entries are these files.
C27_FilesCopiedVerbatim ==
  (Len(pkg.files) > 0 /\ pkg.pc \in {"packageAPK", "done"})
  => /\ DOMAIN pkg.assets = {pkg.files[i].name : i \in 1..Len(pkg.files)}
     /\ \A i \in 1..Len(pkg.files) : pkg.assets[pkg.files[i].name] = pkg.files[i].content
     /\ pkg.pc = "done"
        => \E e \in 1..Len(pkg.apk) :
             /\ pkg.apk[e].kind = "assets"
             /\ pkg.apk[e].names = DOMAIN pkg.assets

\* C33: every build record whose status is 'success' has progress 100.
C33_SuccessHasFullProgress ==
  \A j \in DOMAIN builds :
    builds[j].status = "success" => builds[j].progress = 100

\* C34: a build record has a completion time exactly when its status is
\* 'success' or 'failed'.
C34_CompletedAtIffTerminal ==
  \A j \in DOMAIN builds :
    builds[j].completedAt <=> builds[j].status \in {"success", "failed"}

\* C35: successfulBuilds + failedBuilds never exceeds totalBuilds, and when
\* no build is in flight (every submitted build's task has ended) the two
\* add up to totalBuilds.
C35_StatsAccountForEveryOutcome ==
  /\ buildStats.successfulBuilds + buildStats.failedBuilds <= buildStats.totalBuilds
  /\ (\A j \in BuildIds : task[j].pc \in {"idle", "done", "rejected"})
     => buildStats.totalBuilds
          = buildStats.successfulBuilds + buildStats.failedBuilds

C32_BuildNeverRejects ==
  \A j \in BuildIds :
    /\ task[j].result \in {"none", "success", "failure"}
    /\ task[j].result = "failure"
       => task[j].failedAt # NULL /\ task[j].failedTool # NULL
    /\ task[j].result = "success"
       => task[j].apk # "none" /\ ApkPath(j) \in DOMAIN outputs
    /\ task[j].pc = "rejected" => task[j].result # "none"

\* C32 witness: one builder has returned a failure for an operation that
\* failed, another a success with its package
C32_Witness ==
  \E j \in BuildIds, k \in BuildIds :
    /\ task[j].result = "failure" /\ task[j].failedTool = "keytool"
    /\ task[k].result = "success" /\ task[k].apk # "none"

\* C31: a hook whose socket was sent 'build-complete' for its build has
\* accepted it (isComplete is true and result holds the event), and one that
\* was sent a 'build-progress' event has a progress.
C31_HookAcceptsEvents ==
  \A s \in Sockets, j \in BuildIds :
    /\ received[s][j].complete > 0
       => hook[s][j].isComplete /\ hook[s][j].result # NULL
    /\ received[s][j].progress => hook[s][j].progress # NULL

\* C39: when a call of CordovaBuilder.buildAPK returns its result, success
\* or failure, the process is in the directory it was in when the call was
\* made.
C39_ReturnsToOriginalDirectory ==
  [][\A j \in BuildIds :
       (cordova.run[j].result = "none" /\ cordova'.run[j].result # "none")
       => cwd(cordova') = cordova'.run[j].origin]_vars

\* C37: the entry point and the bundled content agree: a MainActivity that
\* loads the local entry file comes with an index.html in the assets, and
\* one that loads a remote URL loads the URL of the request.
C37_EntryPointMatchesContent ==
  pkg.pc \in {"packageAPK", "done"}
  => /\ pkg.entry = LocalEntry => <<"index.html">> \in DOMAIN pkg.assets
     /\ pkg.entry \notin {LocalEntry, NULL}
        => pkg.websiteUrl /\ pkg.entry = RequestUrl

====
